---- MODULE Spec2Model ----
(***************************************************************************)
(* Model of image_to_json.py: main(), TableImageAnalyzer.encode_image,     *)
(* analyze_table_image and save_to_json.                                   *)
(*                                                                         *)
(* Text is a sequence of characters.  The character "'" stands for the    *)
(* backtick (which a TLA+ string cannot hold); "j", "s", "o", "n", " " and *)
(* "5" stand for themselves and "x" for any other letter.  Four characters *)
(* stand for a fixed piece of JSON text that opens a document and ends     *)
(* inside a string value, and two for the text that closes it:             *)
(*   "T"  {"table_metadata":{"row_headers":["R1"],"column_headers":["C1"]},*)
(*         "cells":[{"row_header":"R1","column_header":"C1",               *)
(*                   "search_question":"Q","cell_value":"                  *)
(*   "M"  the same without "search_question":"Q",                          *)
(*   "E"  {"error":"                                                       *)
(*   "O"  {"note":"                                                        *)
(*   "]"  "}]}          (closes "T" and "M")                               *)
(*   "}"  "}            (closes "E" and "O")                               *)
(* None of these pieces holds a backtick or starts or ends with a letter,  *)
(* so the searches for the JSON-tagged fence and for the bare fence see    *)
(* the same occurrences in the modelled text as in the text it stands for. *)
(***************************************************************************)
EXTENDS Integers, Sequences, FiniteSets, TLC

\* ---------------------------------------------------------------- bounds
\* longest reply, in tokens, of the exhaustively enumerated replies
MaxTokens == 3

\* ------------------------------------------------------- Python strings
\* a message the program builds is a one-element text
Str(m) == <<m>>

\* the Python object None (the reply of a filtered completion, and the
\* value of a name before its assignment)
None == <<"None">>

Whitespace == {" "}

Min(a, b) == IF a < b THEN a ELSE b
Max(a, b) == IF a > b THEN a ELSE b

\* s[a:b] of Python, 0-based, a negative index counted from the end
Slice(s, a, b) ==
    LET n  == Len(s)
        lo == IF a < 0 THEN Max(n + a, 0) ELSE Min(a, n)
        hi == IF b < 0 THEN Max(n + b, 0) ELSE Min(b, n)
    IN  SubSeq(s, lo + 1, hi)

\* sub occurs in s at the 0-based index i
OccursAt(s, sub, i) ==
    /\ i >= 0
    /\ i + Len(sub) <= Len(s)
    /\ SubSeq(s, i + 1, i + Len(sub)) = sub

\* s.find(sub, start): the lowest index >= start where sub occurs, else -1
find(s, sub, start) ==
    LET hits == {i \in start..(Len(s) - Len(sub)) : OccursAt(s, sub, i)}
    IN  IF hits = {} THEN -1
        ELSE CHOOSE i \in hits : \A k \in hits : i <= k

\* sub in s
In(sub, s) == find(s, sub, 0) # -1

\* s.strip()
strip(s) ==
    LET keep == {i \in 1..Len(s) : s[i] \notin Whitespace}
    IN  IF keep = {} THEN <<>>
        ELSE SubSeq(s, CHOOSE i \in keep : \A k \in keep : i <= k,
                       CHOOSE i \in keep : \A k \in keep : i >= k)

FenceJson == <<"'", "'", "'", "j", "s", "o", "n">>
Fence     == <<"'", "'", "'">>

\* ------------------------------------------------------------------ JSON
Openers     == {"T", "M", "E", "O"}
Closer(c)   == IF c \in {"T", "M"} THEN "]" ELSE "}"
StringChars == {"'", "j", "s", "o", "n", " ", "x", "5"}

PyDict(d) == [type |-> "dict", val |-> d]
PyInt(n)  == [type |-> "int", val |-> n]

RECURSIVE Decimal(_)
Decimal(digits) ==
    IF digits = <<>> THEN 0
    ELSE 10 * Decimal(SubSeq(digits, 1, Len(digits) - 1)) + 5

\* the object a document opened by c with the string value w stands for
Document(c, w) ==
    CASE c = "T" ->
           PyDict([table_metadata |-> [row_headers |-> <<Str("R1")>>,
                                       column_headers |-> <<Str("C1")>>],
                   cells |-> <<[row_header |-> Str("R1"),
                                column_header |-> Str("C1"),
                                search_question |-> Str("Q"),
                                cell_value |-> w]>>])
      [] c = "M" ->
           PyDict([table_metadata |-> [row_headers |-> <<Str("R1")>>,
                                       column_headers |-> <<Str("C1")>>],
                   cells |-> <<[row_header |-> Str("R1"),
                                column_header |-> Str("C1"),
                                cell_value |-> w]>>])
      [] c = "E" -> PyDict([error |-> w])
      [] c = "O" -> PyDict([note |-> w])

\* json.loads(s): [ok |-> TRUE, value |-> v], or [ok |-> FALSE] for
\* JSONDecodeError
json_loads(s) ==
    LET p == strip(s)
    IN  IF p = <<>> THEN [ok |-> FALSE]
        ELSE IF \A i \in 1..Len(p) : p[i] = "5"
             THEN [ok |-> TRUE, value |-> PyInt(Decimal(p))]
        ELSE IF /\ Len(p) >= 2
                /\ p[1] \in Openers
                /\ p[Len(p)] = Closer(p[1])
                /\ \A i \in 2..(Len(p) - 1) : p[i] \in StringChars
             THEN [ok |-> TRUE,
                   value |-> Document(p[1], SubSeq(p, 2, Len(p) - 1))]
        ELSE [ok |-> FALSE]

\* ------------------------------------------------------------ extraction
\* Extract that skips three characters after the JSON-tagged fence
Extract_skip3(text) ==
    IF In(FenceJson, text)
    THEN LET json_start == find(text, FenceJson, 0) + 3
             json_end   == find(text, Fence, json_start)
         IN  [path |-> "json",
              json_content |-> strip(Slice(text, json_start, json_end))]
    ELSE IF In(Fence, text)
    THEN LET json_start == find(text, Fence, 0) + 3
             json_end   == find(text, Fence, json_start)
         IN  [path |-> "generic",
              json_content |-> strip(Slice(text, json_start, json_end))]
    ELSE [path |-> "raw", json_content |-> strip(text)]

\* Extract that looks for any fence before the JSON-tagged one
Extract_generic_first(text) ==
    IF In(Fence, text)
    THEN LET json_start == find(text, Fence, 0) + 3
             json_end   == find(text, Fence, json_start)
         IN  [path |-> "generic",
              json_content |-> strip(Slice(text, json_start, json_end))]
    ELSE IF In(FenceJson, text)
    THEN LET json_start == find(text, FenceJson, 0) + 7
             json_end   == find(text, Fence, json_start)
         IN  [path |-> "json",
              json_content |-> strip(Slice(text, json_start, json_end))]
    ELSE [path |-> "raw", json_content |-> strip(text)]

\* lines 129-138: the branch taken and json_content
Extract(text) ==
    IF In(FenceJson, text)
    THEN LET json_start == find(text, FenceJson, 0) + 7
             json_end   == find(text, Fence, json_start)
         IN  [path |-> "json",
              json_content |-> strip(Slice(text, json_start, json_end))]
    ELSE IF In(Fence, text)
    THEN LET json_start == find(text, Fence, 0) + 3
             json_end   == find(text, Fence, json_start)
         IN  [path |-> "generic",
              json_content |-> strip(Slice(text, json_start, json_end))]
    ELSE [path |-> "raw", json_content |-> strip(text)]

\* ------------------------------------------------------------ exceptions
\* the classes that derive from Exception; KeyboardInterrupt does not
ExceptionClasses ==
    {"FileNotFoundError", "PermissionError", "OSError", "APIConnectionError",
     "AuthenticationError", "RateLimitError", "TypeError", "KeyError",
     "AttributeError", "JSONDecodeError"}

\* analyze_except with the extracted payload kept in place of the reply
analyze_except_payload(e, text) ==
    IF e = "JSONDecodeError"
    THEN PyDict([error |-> Str("Failed to parse JSON response"),
                 raw_response |-> Extract(text).json_content])
    ELSE PyDict([error |-> Str(e)])

\* the except clauses of analyze_table_image, lines 144-154: the record
\* returned for the exception e
analyze_except(e, text) ==
    IF e = "JSONDecodeError"
    THEN PyDict([error |-> Str("Failed to parse JSON response"),
                 raw_response |-> text])
    ELSE PyDict([error |-> Str(e)])

\* an exception raised in the try block of analyze_table_image is caught
\* there
analyze_catches(e) == e \in ExceptionClasses

\* the except clauses of save_to_json, lines 168-182: the exception that
\* leaves save_to_json when e is raised in its try block.  The module json
\* has no attribute JSONEncodeError, so matching any exception that is not
\* a PermissionError raises AttributeError at line 173.
save_to_json_except(e) ==
    IF e = "PermissionError" THEN "PermissionError" ELSE "AttributeError"

\* main_except without the clause for KeyboardInterrupt
main_except_exception_only(e) ==
    IF e \in ExceptionClasses THEN "unexpected_error" ELSE "uncaught"

\* the except clauses of main, lines 248-253: how the run ends
main_except(e) ==
    IF e = "KeyboardInterrupt" THEN "cancelled"
    ELSE IF e \in ExceptionClasses THEN "unexpected_error"
    ELSE "uncaught"

\* lines 125-149: what analyze_table_image returns for the reply text
AnalyzeText(text) ==
    LET r == json_loads(Extract(text).json_content)
    IN  IF r.ok THEN r.value ELSE analyze_except("JSONDecodeError", text)

\* ----------------------------------------------------------- serialising
\* json.dump(data, f, indent=2, ensure_ascii=False): the text written
dumps(data) ==
    LET d == data.val
    IN  IF "error" \in DOMAIN d THEN <<"E">> \o d.error \o <<"}">>
        ELSE IF "note" \in DOMAIN d THEN <<"O">> \o d.note \o <<"}">>
        ELSE IF "search_question" \in DOMAIN d.cells[1]
             THEN <<"T">> \o d.cells[1].cell_value \o <<"]">>
        ELSE <<"M">> \o d.cells[1].cell_value \o <<"]">>

\* ---------------------------------------------------------------- inputs
Tokens ==
    {Fence, <<"'">>, <<"j", "s", "o", "n">>, <<" ">>, <<"x">>, <<"T">>,
     <<"]">>, <<"M">>, <<"E">>, <<"}">>, <<"5">>}

RECURSIVE TextsOf(_)
TextsOf(n) ==
    IF n = 0 THEN {<<>>}
    ELSE LET shorter == TextsOf(n - 1)
         IN  shorter \cup {t \o tok : t \in shorter, tok \in Tokens}

\* text before the fence, the opening fence, the payload, the closing
\* fence and the text after it
Prefixes == {<<>>, <<"x">>, <<"'">>, Fence \o <<"x">> \o Fence,
             FenceJson \o Fence, <<"x", " ">>}
Opens    == {FenceJson, Fence, Fence \o <<"x">>, <<>>}
Gaps     == {<<>>, <<" ">>}
Bodies   == {<<"T", "]">>, <<"T", "x", "]">>, <<"T">> \o Fence \o <<"]">>,
             <<"M", "x", "]">>, <<"E", "x", "}">>, <<"O", "x", "}">>,
             <<"5">>, <<"x">>, <<>>}
Closes   == {Fence, <<>>}
Suffixes == {<<>>, <<"x">>, <<"j", "s", "o", "n">>, <<" ">>}

Framed ==
    {pre \o open \o gap \o body \o gap \o close \o suf :
        pre \in Prefixes, open \in Opens, gap \in Gaps, body \in Bodies,
        close \in Closes, suf \in Suffixes}

\* the replies of the model: response.choices[0].message.content
Replies == TextsOf(MaxTokens) \cup Framed

TransportErrors ==
    {"APIConnectionError", "AuthenticationError", "RateLimitError"}

ReadResults  == {"ok", "FileNotFoundError", "PermissionError", "OSError"}
OpenResults  == {"ok", "PermissionError", "OSError"}
ConfigValues == {<<>>, Str("configured")}

Absent  == [exists |-> FALSE, data |-> <<>>]
OldFile == [exists |-> TRUE, data |-> Str("a previous run's output")]

\* ----------------------------------------------------------------- state
VARIABLES
    pc,            \* the statement of main() about to run
    checked,       \* the input checks of main that have passed
    base64_image,  \* the encoded image, None before encode_image returns
    requests,      \* calls of client.chat.completions.create
    content,       \* the reply text, None before the call returns
    path,          \* the extraction branch taken, "none" before
    json_content,  \* the extracted payload
    results,       \* what analyze_table_image returned, None before
    file,          \* the file at output_path
    file0,         \* the file at output_path when the run began
    raised,        \* the exceptions raised so far, in order
    outcome        \* how the run ended, "running" before

vars == <<pc, checked, base64_image, requests, content, path, json_content,
          results, file, file0, raised, outcome>>

NoResults == [type |-> "none", val |-> None]

AnalyzeTry == {"request", "extract", "parse"}
SaveTry    == {"save_open", "save_write", "save_close"}
TryBody    == {"main_check_image", "main_check_credentials", "main_init",
               "encode_image", "main_check_error", "main_summary"}
                  \cup AnalyzeTry \cup SaveTry

Init ==
    /\ pc = "main_check_image"
    /\ checked = {}
    /\ base64_image = None
    /\ requests = 0
    /\ content = None
    /\ path = "none"
    /\ json_content = None
    /\ results = NoResults
    /\ file \in {Absent, OldFile}
    /\ file0 = file
    /\ raised = <<>>
    /\ outcome = "running"

\* the exception e is raised at pc: it is caught in analyze_table_image
\* (which returns a record), or it leaves save_to_json as the except
\* clauses there decide, and ends the run in the except clauses of main
Throw(e) ==
    IF pc \in AnalyzeTry /\ analyze_catches(e)
    THEN /\ results' = analyze_except(e, content)
         /\ pc' = "main_check_error"
         /\ raised' = Append(raised, e)
         /\ outcome' = outcome
    ELSE LET out == IF pc \in SaveTry THEN save_to_json_except(e) ELSE e
         IN  /\ outcome' = main_except(out)
             /\ pc' = "done"
             /\ raised' = IF out = e THEN Append(raised, e)
                          ELSE raised \o <<e, out>>
             /\ results' = results

\* main_check_image that goes on after reporting the missing image
main_check_image_no_return ==
    /\ pc = "main_check_image"
    /\ \E exists \in BOOLEAN :
          /\ checked' = IF exists THEN checked \cup {"image"} ELSE checked
          /\ pc' = "main_check_credentials"
          /\ outcome' = outcome
    /\ UNCHANGED <<base64_image, requests, content, path, json_content,
                   results, file, file0, raised>>

\* lines 202-204
main_check_image ==
    /\ pc = "main_check_image"
    /\ \E exists \in BOOLEAN :
          IF exists
          THEN /\ checked' = checked \cup {"image"}
               /\ pc' = "main_check_credentials"
               /\ outcome' = outcome
          ELSE /\ checked' = checked
               /\ pc' = "done"
               /\ outcome' = "image_not_found"
    /\ UNCHANGED <<base64_image, requests, content, path, json_content,
                   results, file, file0, raised>>

\* lines 206-208
main_check_credentials ==
    /\ pc = "main_check_credentials"
    /\ \E AZURE_ENDPOINT \in ConfigValues, API_KEY \in ConfigValues :
          IF AZURE_ENDPOINT = <<>> \/ API_KEY = <<>>
          THEN /\ checked' = checked
               /\ pc' = "done"
               /\ outcome' = "credentials_missing"
          ELSE /\ checked' = checked \cup {"credentials"}
               /\ pc' = "main_init"
               /\ outcome' = outcome
    /\ UNCHANGED <<base64_image, requests, content, path, json_content,
                   results, file, file0, raised>>

\* lines 211-217
main_init ==
    /\ pc = "main_init"
    /\ pc' = "encode_image"
    /\ UNCHANGED <<checked, base64_image, requests, content, path,
                   json_content, results, file, file0, raised, outcome>>

\* line 65 and lines 36-53: outside the try block of analyze_table_image
encode_image ==
    /\ pc = "encode_image"
    /\ \E r \in ReadResults :
          IF r = "ok"
          THEN /\ base64_image' = Str("base64")
               /\ pc' = "request"
               /\ UNCHANGED <<results, raised, outcome>>
          ELSE /\ base64_image' = base64_image
               /\ Throw(r)
    /\ UNCHANGED <<checked, requests, content, path, json_content, file,
                   file0>>

\* lines 101-125
request ==
    /\ pc = "request"
    /\ requests' = requests + 1
    /\ \/ \E reply \in Replies \cup {None} :
             /\ content' = reply
             /\ pc' = "extract"
             /\ UNCHANGED <<results, raised, outcome>>
       \/ \E e \in TransportErrors :
             /\ content' = content
             /\ Throw(e)
    /\ UNCHANGED <<checked, base64_image, path, json_content, file, file0>>

\* lines 129-138
extract ==
    /\ pc = "extract"
    /\ IF content = None
       THEN /\ Throw("TypeError")
            /\ UNCHANGED <<path, json_content>>
       ELSE /\ path' = Extract(content).path
            /\ json_content' = Extract(content).json_content
            /\ pc' = "parse"
            /\ UNCHANGED <<results, raised, outcome>>
    /\ UNCHANGED <<checked, base64_image, requests, content, file, file0>>

\* lines 141-149
parse ==
    /\ pc = "parse"
    /\ LET r == json_loads(json_content)
       IN  IF r.ok
           THEN /\ results' = r.value
                /\ pc' = "main_check_error"
                /\ UNCHANGED <<raised, outcome>>
           ELSE Throw("JSONDecodeError")
    /\ UNCHANGED <<checked, base64_image, requests, content, path,
                   json_content, file, file0>>

\* lines 224-229
main_check_error ==
    /\ pc = "main_check_error"
    /\ IF results.type # "dict"
       THEN Throw("TypeError")
       ELSE IF "error" \in DOMAIN results.val
       THEN /\ pc' = "done"
            /\ outcome' = "analysis_failed"
            /\ UNCHANGED <<results, raised>>
       ELSE /\ pc' = "save_open"
            /\ UNCHANGED <<results, raised, outcome>>
    /\ UNCHANGED <<checked, base64_image, requests, content, path,
                   json_content, file, file0>>

\* line 165: open(output_path, 'w') creates or truncates the file
save_open ==
    /\ pc = "save_open"
    /\ \E r \in OpenResults :
          IF r = "ok"
          THEN /\ file' = [exists |-> TRUE, data |-> <<>>]
               /\ pc' = "save_write"
               /\ UNCHANGED <<results, raised, outcome>>
          ELSE /\ file' = file
               /\ Throw(r)
    /\ UNCHANGED <<checked, base64_image, requests, content, path,
                   json_content, file0>>

\* line 166: json.dump writes the text piece by piece; a write may fail
save_write ==
    /\ pc = "save_write"
    /\ LET text == dumps(results)
           n    == Len(file.data)
       IN  IF n < Len(text)
           THEN \/ /\ file' = [file EXCEPT !.data = Append(@, text[n + 1])]
                   /\ UNCHANGED <<pc, results, raised, outcome>>
                \/ /\ file' = file
                   /\ Throw("OSError")
           ELSE /\ file' = file
                /\ pc' = "save_close"
                /\ UNCHANGED <<results, raised, outcome>>
    /\ UNCHANGED <<checked, base64_image, requests, content, path,
                   json_content, file0>>

\* lines 165-167: the with block closes the file
save_close ==
    /\ pc = "save_close"
    /\ pc' = "main_summary"
    /\ UNCHANGED <<checked, base64_image, requests, content, path,
                   json_content, results, file, file0, raised, outcome>>

\* lines 236-246
main_summary ==
    /\ pc = "main_summary"
    /\ IF /\ "table_metadata" \in DOMAIN results.val
          /\ \E i \in 1..Min(3, Len(results.val.cells)) :
                "search_question" \notin DOMAIN results.val.cells[i]
       THEN Throw("KeyError")
       ELSE /\ pc' = "done"
            /\ outcome' = "ok"
            /\ UNCHANGED <<results, raised>>
    /\ UNCHANGED <<checked, base64_image, requests, content, path,
                   json_content, file, file0>>

\* the operator interrupts the run: KeyboardInterrupt is raised in the
\* statement about to run
Interrupt ==
    /\ pc \in TryBody
    /\ Throw("KeyboardInterrupt")
    /\ UNCHANGED <<checked, base64_image, requests, content, path,
                   json_content, file, file0>>

Next ==
    \/ main_check_image
    \/ main_check_credentials
    \/ main_init
    \/ encode_image
    \/ request
    \/ extract
    \/ parse
    \/ main_check_error
    \/ save_open
    \/ save_write
    \/ save_close
    \/ main_summary
    \/ Interrupt

Spec == Init /\ [][Next]_vars

\* ------------------------------------------------------------ properties
\* analyze_table_image has returned
Returned == results # NoResults

\* the reply was a text and the extraction has run on it
Extracted == path # "none"

\* the table schema of the specification: table_metadata with row_headers
\* and column_headers, and cells that each hold the four fields
CellFields == {"row_header", "column_header", "cell_value", "search_question"}

IsTableRecord(v) ==
    /\ v.type = "dict"
    /\ {"table_metadata", "cells"} \subseteq DOMAIN v.val
    /\ {"row_headers", "column_headers"} \subseteq DOMAIN v.val.table_metadata
    /\ \A i \in 1..Len(v.val.cells) : CellFields \subseteq DOMAIN v.val.cells[i]

IsFailureRecord(v) == v.type = "dict" /\ "error" \in DOMAIN v.val

\* text is JSON for a table record
IsTableJson(text) ==
    json_loads(text).ok /\ IsTableRecord(json_loads(text).value)

\* the output file holds the complete serialised results
FileComplete ==
    /\ results.type = "dict"
    /\ file = [exists |-> TRUE, data |-> dumps(results)]

Positions == 0..Len(content)

\* the 0-based index just after the opening fence the reply is read from
OpenEnd ==
    IF \E i \in Positions : OccursAt(content, FenceJson, i)
    THEN 7 + CHOOSE i \in Positions :
               /\ OccursAt(content, FenceJson, i)
               /\ \A h \in 0..(i - 1) : ~OccursAt(content, FenceJson, h)
    ELSE 3 + CHOOSE i \in Positions :
               /\ OccursAt(content, Fence, i)
               /\ \A h \in 0..(i - 1) : ~OccursAt(content, Fence, h)

HasFence  == \E i \in Positions : OccursAt(content, Fence, i)
HasClosing == \E k \in OpenEnd..Len(content) : OccursAt(content, Fence, k)

\* C1: a run that ends in a failure (or whose parsed reply fails the table
\* schema) leaves the output file as it was, and save_to_json is reached
\* only with a validated table record.
C1_NoOutputOnFailure ==
    /\ (pc = "done" /\ (outcome # "ok" \/ ~IsTableRecord(results)))
          => file = file0
    /\ pc \in SaveTry => IsTableRecord(results)

\* C2: when the extracted payload is not valid JSON, analyze_table_image
\* returns the record with error "Failed to parse JSON response" and
\* raw_response equal to the original reply text.
C2_ParseFailureRecord ==
    (Returned /\ Extracted /\ ~json_loads(json_content).ok)
        => results = PyDict([error |-> Str("Failed to parse JSON response"),
                             raw_response |-> content])

C2_Witness ==
    /\ Returned /\ Extracted
    /\ ~json_loads(json_content).ok
    /\ path = "json"
    /\ json_content # <<>>
    /\ json_content # content
    /\ pc = "done"

\* C3: a reply that parses to an object that is not a table record (a
\* required field is missing) makes analyze_table_image return a failure
\* record, never the parsed object.
C3_ValidationFailure ==
    (/\ Returned /\ Extracted
     /\ json_loads(json_content).ok
     /\ json_loads(json_content).value.type = "dict"
     /\ ~IsFailureRecord(json_loads(json_content).value)
     /\ ~IsTableRecord(json_loads(json_content).value))
        => /\ IsFailureRecord(results)
           /\ results # json_loads(json_content).value

\* C4 as stated: a reply that holds table JSON J between a JSON-tagged
\* fence and a closing fence, with any text around them, is analysed to
\* the record J parses to.
C4_JsonFenceAnyText ==
    \A i \in Positions, k \in Positions :
        (/\ Returned /\ Extracted
         /\ OccursAt(content, FenceJson, i)
         /\ k >= i + 7
         /\ OccursAt(content, Fence, k)
         /\ IsTableJson(SubSeq(content, i + 8, k)))
            => results = json_loads(SubSeq(content, i + 8, k)).value

\* C4 as amended: the same when no JSON-tagged fence occurs before the
\* one that opens J and J holds no triple backtick.
C4_JsonFence ==
    \A i \in Positions, k \in Positions :
        (/\ Returned /\ Extracted
         /\ OccursAt(content, FenceJson, i)
         /\ \A h \in 0..(i - 1) : ~OccursAt(content, FenceJson, h)
         /\ k >= i + 7
         /\ OccursAt(content, Fence, k)
         /\ ~In(Fence, SubSeq(content, i + 8, k))
         /\ IsTableJson(SubSeq(content, i + 8, k)))
            => results = json_loads(SubSeq(content, i + 8, k)).value

C4_Witness ==
    /\ Returned /\ Extracted
    /\ IsTableRecord(results)
    /\ results.val.cells[1].cell_value # <<>>
    /\ \E i \in Positions, k \in Positions :
          /\ i > 0
          /\ OccursAt(content, FenceJson, i)
          /\ \A h \in 0..(i - 1) : ~OccursAt(content, FenceJson, h)
          /\ k >= i + 7
          /\ OccursAt(content, Fence, k)
          /\ k + 3 < Len(content)
          /\ ~In(Fence, SubSeq(content, i + 8, k))
          /\ IsTableJson(SubSeq(content, i + 8, k))

\* a language tag other than json: letters right after the fence
TagChars == {"x", "j", "s", "o", "n"}
IsOtherTag(tag) ==
    /\ \A i \in 1..Len(tag) : tag[i] \in TagChars
    /\ tag # <<"j", "s", "o", "n">>

\* C5: a reply without a JSON-tagged fence that holds table JSON J in its
\* first fence, which is bare or carries another language tag, is analysed
\* to the same result as the reply with that fence replaced by a
\* JSON-tagged one.
C5_FenceTagIndependence ==
    \A i \in Positions, m \in Positions, k \in Positions :
        (/\ Returned /\ Extracted
         /\ ~\E h \in Positions : OccursAt(content, FenceJson, h)
         /\ OccursAt(content, Fence, i)
         /\ \A h \in 0..(i - 1) : ~OccursAt(content, Fence, h)
         /\ i + 3 <= m /\ m <= k
         /\ IsOtherTag(SubSeq(content, i + 4, m))
         /\ OccursAt(content, Fence, k)
         /\ IsTableJson(SubSeq(content, m + 1, k)))
            => results = AnalyzeText(SubSeq(content, 1, i) \o FenceJson
                                     \o SubSeq(content, m + 1, Len(content)))

\* C6: the request is issued at most once, only after the image check and
\* the credentials check have passed and the image has been read; a run
\* that ends at a failed check has issued no request and left the output
\* file as it was.
C6_RequestAfterChecks ==
    /\ requests <= 1
    /\ requests = 1 => /\ {"image", "credentials"} \subseteq checked
                       /\ base64_image # None
    /\ outcome \in {"image_not_found", "credentials_missing"}
          => requests = 0 /\ file = file0

C6_Witness ==
    /\ requests = 1
    /\ {"image", "credentials"} \subseteq checked
    /\ pc = "done"

\* C7: the output file is at every moment as it was before the run or
\* holds the complete serialised results.
C7_AllOrNothing == file = file0 \/ FileComplete

\* C8: with an opening fence and no closing fence after it, the payload is
\* the rest of the text after the opening fence, trimmed.
C8_SliceToEnd ==
    (Extracted /\ HasFence /\ ~HasClosing)
        => json_content = strip(SubSeq(content, OpenEnd + 1, Len(content)))

\* C9: the JSON-tagged fence is looked for first, then any fence, then the
\* whole text: exactly the first applicable path is taken, and with a
\* closing fence the payload is the trimmed text between the opening fence
\* of that path and the next fence.
C9_PathOrder ==
    Extracted =>
      /\ path = "json" <=> \E i \in Positions : OccursAt(content, FenceJson, i)
      /\ path = "generic" <=>
            /\ HasFence
            /\ ~\E i \in Positions : OccursAt(content, FenceJson, i)
      /\ path = "raw" <=> ~HasFence
      /\ path = "raw" => json_content = strip(content)
      /\ \A k \in Positions :
            (/\ HasFence
             /\ k >= OpenEnd
             /\ OccursAt(content, Fence, k)
             /\ \A h \in OpenEnd..(k - 1) : ~OccursAt(content, Fence, h))
                => json_content = strip(SubSeq(content, OpenEnd + 1, k))

\* a generic fence comes before the JSON-tagged one, and the payload is
\* taken from the JSON-tagged one
C9_Witness ==
    /\ Extracted
    /\ path = "json"
    /\ HasClosing
    /\ OpenEnd > 7
    /\ \E i \in 0..(OpenEnd - 10) : OccursAt(content, Fence, i)
    /\ json_content # <<>>

IOErrors == {"FileNotFoundError", "PermissionError", "OSError"}

\* how far the run has come: the statement reached, then the text written
PcOrder ==
    <<"main_check_image", "main_check_credentials", "main_init",
      "encode_image", "request", "extract", "parse", "main_check_error",
      "save_open", "save_write", "save_close", "main_summary", "done">>

Progress(p, f) ==
    100 * (CHOOSE i \in 1..Len(PcOrder) : PcOrder[i] = p)
        + (IF p = "save_write" THEN Len(f.data) ELSE 0)

C10_Caught ==
    /\ outcome # "uncaught"
    /\ pc = "done" <=> outcome # "running"
    /\ \A e \in TransportErrors :
          (raised # <<>> /\ raised[1] = e)
              => /\ results = PyDict([error |-> Str(e)])
                 /\ outcome \in {"running", "analysis_failed", "cancelled"}
    /\ (raised # <<>> /\ raised[1] \in IOErrors)
          => pc = "done" /\ outcome = "unexpected_error"
    /\ (raised # <<>> /\ raised[Len(raised)] \in {"KeyboardInterrupt", "AttributeError"})
          => pc = "done" /\ outcome \in {"cancelled", "unexpected_error"}

====
